---- MODULE Spec2Model ----
(***************************************************************************)
(* Model of the card-selection decision engine of Keel                     *)
(* (server/app/services/openai_client.py,                                  *)
(*  OpenAIClient.analyze_location_and_recommend_card and its helpers).     *)
(*                                                                         *)
(* Representation of Python values:                                        *)
(*   str    a tuple of one-character strings, <<"g","a","s">> for "gas";   *)
(*          ord gives the code point that str comparison uses              *)
(*   None   the tuple None, which is not a str                             *)
(*   float  [tenths |-> t, ulps |-> u], the number t/10 + u * 1e-10 with   *)
(*          0 <= u < 10^8: multipliers on a grid of tenths, each possibly  *)
(*          off the grid by a few units of 1e-10                           *)
(*   dict   a function whose DOMAIN is the set of keys                     *)
(***************************************************************************)
EXTENDS Integers, Sequences, FiniteSets, TLC

\* ------------------------------------------------------------------ str

UpperCase == <<"A","B","C","D","E","F","G","H","I","J","K","L","M",
               "N","O","P","Q","R","S","T","U","V","W","X","Y","Z">>

LowerCase == <<"a","b","c","d","e","f","g","h","i","j","k","l","m",
               "n","o","p","q","r","s","t","u","v","w","x","y","z">>

Digits == <<"0","1","2","3","4","5","6","7","8","9">>

IndexIn(seq, c) == CHOOSE i \in 1..Len(seq) : seq[i] = c

IsIn(seq, c) == \E i \in 1..Len(seq) : seq[i] = c

\* ord(c): the code point of the characters the tables and the inputs use.
ord(c) ==
  IF IsIn(UpperCase, c) THEN 64 + IndexIn(UpperCase, c)
  ELSE IF IsIn(LowerCase, c) THEN 96 + IndexIn(LowerCase, c)
  ELSE IF IsIn(Digits, c) THEN 47 + IndexIn(Digits, c)
  ELSE IF c = " " THEN 32
  ELSE IF c = "+" THEN 43
  ELSE 95   \* "_"

None == <<"None">>

\* str.lower()
lower(s) ==
  [i \in 1..Len(s) |->
     IF IsIn(UpperCase, s[i]) THEN LowerCase[IndexIn(UpperCase, s[i])] ELSE s[i]]

RECURSIVE lstrip(_)
lstrip(s) == IF s # <<>> /\ Head(s) = " " THEN lstrip(Tail(s)) ELSE s

RECURSIVE rstrip(_)
rstrip(s) ==
  IF s # <<>> /\ s[Len(s)] = " " THEN rstrip(SubSeq(s, 1, Len(s) - 1)) ELSE s

\* str.strip(); the blank is the one whitespace character of the inputs
strip(s) == rstrip(lstrip(s))

\* bool(x) of a str or None
Truthy(s) == s # None /\ s # <<>>

\* lc: s.lower().strip() if isinstance(s, str) else s
lc(s) == IF s = None THEN s ELSE strip(lower(s))

\* a < b on str: code points from the left, a proper prefix first
RECURSIVE str_lt(_, _)
str_lt(a, b) ==
  IF b = <<>> THEN FALSE
  ELSE IF a = <<>> THEN TRUE
  ELSE IF ord(Head(a)) # ord(Head(b)) THEN ord(Head(a)) < ord(Head(b))
  ELSE str_lt(Tail(a), Tail(b))

\* dict.get(key, default)
DictGet(d, key, default) == IF key \in DOMAIN d THEN d[key] ELSE default

\* -------------------------------------------------- normalize_card_name

card_mappings ==
     (<<"a","m","e","x"," ","g","o","l","d"," ","c","a","r","d">> :> <<"A","m","e","x"," ","G","o","l","d">>)
  @@ (<<"a","m","e","x"," ","g","o","l","d">> :> <<"A","m","e","x"," ","G","o","l","d">>)
  @@ (<<"a","m","e","r","i","c","a","n"," ","e","x","p","r","e","s","s"," ","g","o","l","d"," ","c","a","r","d">> :> <<"A","m","e","x"," ","G","o","l","d">>)
  @@ (<<"a","m","e","r","i","c","a","n"," ","e","x","p","r","e","s","s"," ","g","o","l","d">> :> <<"A","m","e","x"," ","G","o","l","d">>)
  @@ (<<"c","h","a","s","e"," ","s","a","p","p","h","i","r","e"," ","p","r","e","f","e","r","r","e","d">> :> <<"C","h","a","s","e"," ","S","a","p","p","h","i","r","e"," ","P","r","e","f","e","r","r","e","d">>)
  @@ (<<"c","h","a","s","e"," ","s","a","p","p","h","i","r","e"," ","r","e","s","e","r","v","e">> :> <<"C","h","a","s","e"," ","S","a","p","p","h","i","r","e"," ","R","e","s","e","r","v","e">>)
  @@ (<<"c","h","a","s","e"," ","f","r","e","e","d","o","m">> :> <<"C","h","a","s","e"," ","F","r","e","e","d","o","m">>)
  @@ (<<"c","h","a","s","e"," ","f","r","e","e","d","o","m"," ","u","n","l","i","m","i","t","e","d">> :> <<"C","h","a","s","e"," ","F","r","e","e","d","o","m"," ","U","n","l","i","m","i","t","e","d">>)
  @@ (<<"c","h","a","s","e"," ","f","r","e","e","d","o","m"," ","f","l","e","x">> :> <<"C","h","a","s","e"," ","F","r","e","e","d","o","m">>)
  @@ (<<"c","i","t","i"," ","d","o","u","b","l","e"," ","c","a","s","h">> :> <<"C","i","t","i"," ","D","o","u","b","l","e"," ","C","a","s","h">>)
  @@ (<<"c","i","t","i"," ","c","u","s","t","o","m"," ","c","a","s","h">> :> <<"C","i","t","i"," ","C","u","s","t","o","m"," ","C","a","s","h">>)
  @@ (<<"d","i","s","c","o","v","e","r"," ","i","t"," ","c","a","s","h"," ","b","a","c","k">> :> <<"D","i","s","c","o","v","e","r"," ","i","t"," ","C","a","s","h"," ","B","a","c","k">>)
  @@ (<<"d","i","s","c","o","v","e","r"," ","i","t"," ","m","i","l","e","s">> :> <<"D","i","s","c","o","v","e","r"," ","i","t"," ","M","i","l","e","s">>)
  @@ (<<"c","a","p","i","t","a","l"," ","o","n","e"," ","v","e","n","t","u","r","e">> :> <<"C","a","p","i","t","a","l"," ","O","n","e"," ","V","e","n","t","u","r","e">>)
  @@ (<<"c","a","p","i","t","a","l"," ","o","n","e"," ","v","e","n","t","u","r","e"," ","x">> :> <<"C","a","p","i","t","a","l"," ","O","n","e"," ","V","e","n","t","u","r","e"," ","X">>)
  @@ (<<"a","m","e","x"," ","p","l","a","t","i","n","u","m">> :> <<"A","m","e","x"," ","P","l","a","t","i","n","u","m">>)
  @@ (<<"a","m","e","x"," ","b","l","u","e"," ","c","a","s","h"," ","p","r","e","f","e","r","r","e","d">> :> <<"A","m","e","x"," ","B","l","u","e"," ","C","a","s","h"," ","P","r","e","f","e","r","r","e","d">>)
  @@ (<<"a","m","e","x"," ","b","l","u","e"," ","c","a","s","h"," ","e","v","e","r","y","d","a","y">> :> <<"A","m","e","x"," ","B","l","u","e"," ","C","a","s","h"," ","E","v","e","r","y","d","a","y">>)
  @@ (<<"w","e","l","l","s"," ","f","a","r","g","o"," ","a","c","t","i","v","e"," ","c","a","s","h">> :> <<"W","e","l","l","s"," ","F","a","r","g","o"," ","A","c","t","i","v","e"," ","C","a","s","h">>)
  @@ (<<"b","a","n","k"," ","o","f"," ","a","m","e","r","i","c","a"," ","c","u","s","t","o","m","i","z","e","d"," ","c","a","s","h">> :> <<"B","a","n","k"," ","o","f"," ","A","m","e","r","i","c","a"," ","C","u","s","t","o","m","i","z","e","d"," ","C","a","s","h">>)
  @@ (<<"u","s"," ","b","a","n","k"," ","c","a","s","h","+">> :> <<"U","S"," ","B","a","n","k"," ","C","a","s","h","+">>)
  @@ (<<"c","i","t","i"," ","p","r","e","m","i","e","r">> :> <<"C","i","t","i"," ","P","r","e","m","i","e","r">>)
  @@ (<<"a","m","e","x"," ","g","r","e","e","n">> :> <<"A","m","e","x"," ","G","r","e","e","n">>)
  @@ (<<"c","h","a","s","e"," ","i","n","k"," ","b","u","s","i","n","e","s","s"," ","p","r","e","f","e","r","r","e","d">> :> <<"C","h","a","s","e"," ","I","n","k"," ","B","u","s","i","n","e","s","s"," ","P","r","e","f","e","r","r","e","d">>)

normalize_card_name_exact_key(card_name) ==
  IF ~Truthy(card_name) THEN card_name
  ELSE DictGet(card_mappings, card_name, strip(lower(card_name)))

normalize_card_name(card_name) ==
  IF ~Truthy(card_name) THEN card_name
  ELSE DictGet(card_mappings, strip(lower(card_name)), card_name)

\* ------------------------------------------------ canonicalize_category

mcc_map ==
     (<<"5","8","1","2">> :> <<"d","i","n","i","n","g">>)
  @@ (<<"5","8","1","3">> :> <<"d","i","n","i","n","g">>)
  @@ (<<"5","8","1","4">> :> <<"d","i","n","i","n","g">>)
  @@ (<<"5","4","1","1">> :> <<"g","r","o","c","e","r","y">>)
  @@ (<<"5","5","4","1">> :> <<"g","a","s">>)
  @@ (<<"5","5","4","2">> :> <<"g","a","s">>)
  @@ (<<"7","0","1","1">> :> <<"h","o","t","e","l","s">>)
  @@ (<<"4","5","1","1">> :> <<"f","l","i","g","h","t","s">>)
  @@ (<<"4","1","1","1">> :> <<"t","r","a","n","s","i","t">>)
  @@ (<<"4","1","2","1">> :> <<"t","r","a","n","s","i","t">>)
  @@ (<<"5","9","1","2">> :> <<"d","r","u","g","s","t","o","r","e","s">>)
  @@ (<<"4","9","0","0">> :> <<"u","t","i","l","i","t","i","e","s">>)

type_map ==
     (<<"r","e","s","t","a","u","r","a","n","t">> :> <<"d","i","n","i","n","g">>)
  @@ (<<"c","a","f","e">> :> <<"d","i","n","i","n","g">>)
  @@ (<<"c","o","f","f","e","e","_","s","h","o","p">> :> <<"d","i","n","i","n","g">>)
  @@ (<<"g","r","o","c","e","r","y","_","o","r","_","s","u","p","e","r","m","a","r","k","e","t">> :> <<"g","r","o","c","e","r","y">>)
  @@ (<<"s","u","p","e","r","m","a","r","k","e","t">> :> <<"g","r","o","c","e","r","y">>)
  @@ (<<"g","a","s","_","s","t","a","t","i","o","n">> :> <<"g","a","s">>)
  @@ (<<"l","o","d","g","i","n","g">> :> <<"h","o","t","e","l","s">>)
  @@ (<<"a","i","r","p","o","r","t">> :> <<"f","l","i","g","h","t","s">>)
  @@ (<<"t","r","a","i","n","_","s","t","a","t","i","o","n">> :> <<"t","r","a","n","s","i","t">>)
  @@ (<<"s","u","b","w","a","y","_","s","t","a","t","i","o","n">> :> <<"t","r","a","n","s","i","t">>)
  @@ (<<"b","u","s","_","s","t","a","t","i","o","n">> :> <<"t","r","a","n","s","i","t">>)

cat_alias ==
     (<<"r","e","s","t","a","u","r","a","n","t","s">> :> <<"d","i","n","i","n","g">>)
  @@ (<<"r","e","s","t","a","u","r","a","n","t">> :> <<"d","i","n","i","n","g">>)
  @@ (<<"c","o","f","f","e","e">> :> <<"d","i","n","i","n","g">>)
  @@ (<<"c","a","f","e">> :> <<"d","i","n","i","n","g">>)
  @@ (<<"g","r","o","c","e","r","i","e","s">> :> <<"g","r","o","c","e","r","y">>)
  @@ (<<"s","u","p","e","r","m","a","r","k","e","t">> :> <<"g","r","o","c","e","r","y">>)
  @@ (<<"f","u","e","l">> :> <<"g","a","s">>)
  @@ (<<"g","a","s">> :> <<"g","a","s">>)
  @@ (<<"d","r","u","g","s","t","o","r","e">> :> <<"d","r","u","g","s","t","o","r","e","s">>)
  @@ (<<"p","h","a","r","m","a","c","y">> :> <<"d","r","u","g","s","t","o","r","e","s">>)
  @@ (<<"u","t","i","l","i","t","y">> :> <<"u","t","i","l","i","t","i","e","s">>)
  @@ (<<"t","r","a","v","e","l">> :> <<"t","r","a","v","e","l">>)
  @@ (<<"f","l","i","g","h","t","s">> :> <<"f","l","i","g","h","t","s">>)
  @@ (<<"h","o","t","e","l","s">> :> <<"h","o","t","e","l","s">>)
  @@ (<<"t","r","a","n","s","i","t">> :> <<"t","r","a","n","s","i","t">>)
  @@ (<<"o","n","l","i","n","e","_","s","h","o","p","p","i","n","g">> :> <<"o","n","l","i","n","e","_","s","h","o","p","p","i","n","g">>)

\* the first place type, in list order, that type_map knows; 0 when none
FirstKnownType(types) ==
  IF \E i \in 1..Len(types) : types[i] \in DOMAIN type_map
  THEN CHOOSE i \in 1..Len(types) :
         /\ types[i] \in DOMAIN type_map
         /\ \A j \in 1..(i - 1) : types[j] \notin DOMAIN type_map
  ELSE 0

\* canonicalize_category that returns an unknown free text as it was given
canonicalize_keeping_text(category, mcc, place_types) ==
  LET m     == strip(IF Truthy(mcc) THEN mcc ELSE <<>>)
      types == [i \in 1..Len(place_types) |-> lower(place_types[i])]
      t     == FirstKnownType(types)
  IN  IF m \in DOMAIN mcc_map THEN mcc_map[m]
      ELSE IF t # 0 THEN type_map[types[t]]
      ELSE IF Truthy(category)
           THEN DictGet(cat_alias, strip(lower(category)), category)
      ELSE None

canonicalize_free_text_first(category, mcc, place_types) ==
  LET m     == strip(IF Truthy(mcc) THEN mcc ELSE <<>>)
      types == [i \in 1..Len(place_types) |-> lower(place_types[i])]
      t     == FirstKnownType(types)
  IN  IF Truthy(category)
      THEN DictGet(cat_alias, strip(lower(category)), strip(lower(category)))
      ELSE IF m \in DOMAIN mcc_map THEN mcc_map[m]
      ELSE IF t # 0 THEN type_map[types[t]]
      ELSE None

canonicalize_category(category, mcc, place_types) ==
  LET m     == strip(IF Truthy(mcc) THEN mcc ELSE <<>>)
      types == [i \in 1..Len(place_types) |-> lower(place_types[i])]
      t     == FirstKnownType(types)
  IN  IF m \in DOMAIN mcc_map THEN mcc_map[m]
      ELSE IF t # 0 THEN type_map[types[t]]
      ELSE IF Truthy(category)
           THEN DictGet(cat_alias, strip(lower(category)), strip(lower(category)))
      ELSE None

\* ---------------------------------------------------------------- float

F(t, u) == [tenths |-> t, ulps |-> u]

Zero == F(0, 0)

One == F(10, 0)

float_lt(a, b) ==
  a.tenths < b.tenths \/ (a.tenths = b.tenths /\ a.ulps < b.ulps)

\* max(a, b): the first of the largest
max2(a, b) == IF float_lt(a, b) THEN b ELSE a

RECURSIVE max_of(_)
max_of(fs) ==
  IF Len(fs) = 1 THEN fs[1] ELSE max2(max_of(SubSeq(fs, 1, Len(fs) - 1)), fs[Len(fs)])

\* abs_tol = 1e-9, in units of 1e-10
AbsTolUlps == 10

\* rel_tol = 1e-9 of a value of one tenth, 1e-10, in units of 1e-10
RelTolUlpsPerTenth == 1

\* math.isclose(a, b, rel_tol=1e-9, abs_tol=1e-9):
\*   abs(a - b) <= max(rel_tol * max(abs(a), abs(b)), abs_tol).
\* Values on different tenths differ by about 0.1, far above the tolerance.
\* On the same tenth t the difference is |a.ulps - b.ulps| * 1e-10 and the
\* tolerance is max(t * 1e-10 + (less than 1e-10), 1e-9).
isclose(a, b) ==
  LET d   == IF a.ulps >= b.ulps THEN a.ulps - b.ulps ELSE b.ulps - a.ulps
      rel == RelTolUlpsPerTenth * a.tenths
  IN  /\ a.tenths = b.tenths
      /\ d <= (IF rel >= AbsTolUlps THEN rel ELSE AbsTolUlps)

\* ----------------------------------------------------- rewards.json values

JNum(t, u) == [type |-> "number", tenths |-> t, ulps |-> u]

JNull == [type |-> "null", tenths |-> 0, ulps |-> 0]

\* a JSON string that is no number, such as "n/a"
JStr == [type |-> "string", tenths |-> 0, ulps |-> 0]

\* bool(v) is False: null and 0
Falsy(v) == v.type = "null" \/ (v.type = "number" /\ v.tenths = 0 /\ v.ulps = 0)

\* rw.get(key, default) or default
GetOr(rw, key, default) ==
  LET v == DictGet(rw, key, JNum(default.tenths, default.ulps))
  IN  IF Falsy(v) THEN JNum(default.tenths, default.ulps) ELSE v

\* float(v) raises ValueError on a string that is no number
float_raises(v) == v.type = "string"

float(v) == F(v.tenths, v.ulps)

\* ----------------------------------------------------------- build_rows

everything_else == <<"e","v","e","r","y","t","h","i","n","g","_","e","l","s","e">>

travel == <<"t","r","a","v","e","l">>

rotating == <<"r","o","t","a","t","i","n","g">>

flights == <<"f","l","i","g","h","t","s">>

hotels == <<"h","o","t","e","l","s">>

transit == <<"t","r","a","n","s","i","t">>

\* cc = lc(canonical_category) if canonical_category else None
cc_of(canonical_category) ==
  IF Truthy(canonical_category) THEN lc(canonical_category) ELSE None

\* rw = card_entry.get("rewards", {}) or {} of cards_dict.get(normalized_card, {})
rw_of(cards_dict, normalized_card) ==
  DictGet(DictGet(cards_dict, normalized_card, [rewards |-> <<>>]), "rewards", <<>>)

\* base_json whose default is 0.0
base_json_zero_default(rw) == GetOr(rw, everything_else, Zero)

base_json(rw) == GetOr(rw, everything_else, One)

cat_json(rw, cc) == GetOr(rw, cc, Zero)

\* the generic 'travel' entry is read when the category's own value came out 0.0
travel_read(rw, cc) ==
  /\ Truthy(cc)
  /\ ~float_raises(cat_json(rw, cc))
  /\ float(cat_json(rw, cc)) = Zero
  /\ cc \in {flights, hotels, transit}

travel_json(rw) == GetOr(rw, travel, Zero)

\* cat_mult_of that never reads the category's entry
cat_mult_of_nothing(rw, cc) == Zero

cat_mult_of(rw, cc) ==
  IF ~Truthy(cc) THEN Zero
  ELSE IF travel_read(rw, cc) THEN float(travel_json(rw))
  ELSE float(cat_json(rw, cc))

\* rot_read without the membership test
rot_read_ungated(cc, rotating_active) == Truthy(cc)

rot_read(cc, rotating_active) == Truthy(cc) /\ cc \in rotating_active

rot_json(rw) == GetOr(rw, rotating, Zero)

rot_mult_of(rw, cc, rotating_active) ==
  IF rot_read(cc, rotating_active) THEN float(rot_json(rw)) ELSE Zero

\* one pass of the loop body raises when a float() it evaluates raises
row_raises(card, cards_dict, cc, rotating_active) ==
  LET rw == rw_of(cards_dict, normalize_card_name(card))
  IN  \/ float_raises(base_json(rw))
      \/ Truthy(cc) /\ float_raises(cat_json(rw, cc))
      \/ travel_read(rw, cc) /\ float_raises(travel_json(rw))
      \/ rot_read(cc, rotating_active) /\ float_raises(rot_json(rw))

\* row_of whose maximum leaves the rotating multiplier out
row_of_without_rotating(card, cards_dict, cc, rotating_active) ==
  LET normalized_card == normalize_card_name(card)
      rw       == rw_of(cards_dict, normalized_card)
      base     == float(base_json(rw))
      cat_mult == cat_mult_of(rw, cc)
      rot_mult == rot_mult_of(rw, cc, rotating_active)
  IN  [card                 |-> normalized_card,
       category_multiplier  |-> cat_mult,
       rotating_multiplier  |-> rot_mult,
       base_multiplier      |-> base,
       effective_multiplier |-> max2(base, cat_mult)]

row_of(card, cards_dict, cc, rotating_active) ==
  LET normalized_card == normalize_card_name(card)
      rw       == rw_of(cards_dict, normalized_card)
      base     == float(base_json(rw))
      cat_mult == cat_mult_of(rw, cc)
      rot_mult == rot_mult_of(rw, cc, rotating_active)
  IN  [card                 |-> normalized_card,
       category_multiplier  |-> cat_mult,
       rotating_multiplier  |-> rot_mult,
       base_multiplier      |-> base,
       effective_multiplier |-> max2(max2(base, cat_mult), rot_mult)]

build_rows_raises(user_cards, rewards, canonical_category, rotating_active) ==
  \E i \in 1..Len(user_cards) :
    row_raises(user_cards[i], rewards.cards, cc_of(canonical_category), rotating_active)

\* build_rows that walks the wallet from its end
build_rows_reversed(user_cards, rewards, canonical_category, rotating_active) ==
  [i \in 1..Len(user_cards) |->
     row_of(user_cards[Len(user_cards) + 1 - i], rewards.cards,
            cc_of(canonical_category), rotating_active)]

build_rows(user_cards, rewards, canonical_category, rotating_active) ==
  [i \in 1..Len(user_cards) |->
     row_of(user_cards[i], rewards.cards, cc_of(canonical_category), rotating_active)]

\* --------------------------------------------------- deterministic_best

\* the value deterministic_best returns for no rows, and the value of `best`
\* while the name is still unbound
NoneRow == [card |-> None, category_multiplier |-> Zero, rotating_multiplier |-> Zero,
            base_multiplier |-> Zero, effective_multiplier |-> Zero]

Unbound == [card |-> <<"unbound">>, category_multiplier |-> Zero,
            rotating_multiplier |-> Zero, base_multiplier |-> Zero,
            effective_multiplier |-> Zero]

effs(rows) == [i \in 1..Len(rows) |-> rows[i].effective_multiplier]

bases(rows) == [i \in 1..Len(rows) |-> rows[i].base_multiplier]

\* eff_tied_of without the filter on the effective multiplier
eff_tied_of_everything(rows) == rows

eff_tied_of(rows) ==
  LET max_eff == max_of(effs(rows))
      close(r) == isclose(r.effective_multiplier, max_eff)
  IN  SelectSeq(rows, close)

\* base_tied_of without the filter on the base multiplier
base_tied_of_everything(eff_tied) == eff_tied

base_tied_of(eff_tied) ==
  LET max_base == max_of(bases(eff_tied))
      close(r) == isclose(r.base_multiplier, max_base)
  IN  SelectSeq(eff_tied, close)

\* the key order with the letter case ignored
card_key_lt_caseless(a, b) == str_lt(lower(a.card), lower(b.card))

\* key order of sort(key=lambda x: x["card"])
card_key_lt(a, b) == str_lt(a.card, b.card)

\* list.sort is stable: r goes behind every row whose key is not greater
sort_insert(sorted, r) ==
  LET n == Cardinality({i \in 1..Len(sorted) : ~card_key_lt(r, sorted[i])})
  IN  SubSeq(sorted, 1, n) \o <<r>> \o SubSeq(sorted, n + 1, Len(sorted))

RECURSIVE sort_by_card(_)
sort_by_card(rows) ==
  IF rows = <<>> THEN <<>>
  ELSE sort_insert(sort_by_card(SubSeq(rows, 1, Len(rows) - 1)), rows[Len(rows)])

\* deterministic_best that takes the first of the rows tied on the
\* effective multiplier
deterministic_best_first_tied(rows) ==
  IF rows = <<>> THEN NoneRow ELSE eff_tied_of(rows)[1]

deterministic_best(rows) ==
  IF rows = <<>> THEN NoneRow
  ELSE LET eff_tied  == eff_tied_of(rows)
           base_tied == base_tied_of(eff_tied)
       IN  IF Len(eff_tied) = 1 THEN eff_tied[1]
           ELSE IF Len(base_tied) = 1 THEN base_tied[1]
           ELSE sort_by_card(base_tied)[1]

\* --------------------------------- analyze_location_and_recommend_card

VARIABLES
  rewards_json,        \* rewards.json on disk: [readable, data]
  location_metadata,   \* the argument of the call
  pc,                  \* "start", "model_call", "returned", "raised"
  canonical_category,  \* locals of the call
  rotating_active,
  rows,
  best,
  reply,               \* what the chat completion call produced
  result,              \* what the call returned
  calls                \* how many times chat.completions.create was invoked

request_vars == <<rewards_json, location_metadata, pc, canonical_category,
                  rotating_active, rows, best, reply, result, calls>>

\* The other operations of the server; each has its own specification below.
VARIABLES
  card_name,           \* normalize_card_name: the str a caller holds
  normalized,          \* the values successive calls returned, oldest first
  coroutines,          \* mock_visit: where each request's coroutine stands
  thread,              \* the request the event loop's thread is executing, 0 when none
  redis,               \* the Redis server: per idempotency key, whether it is stored
  visits,              \* process_visit_event: each request's header, position, answer
  token,               \* a JWT as jwt.decode and the clock see it
  auth,                \* what verify_access_token, verify_refresh_token and
                       \* /auth/refresh made of it, "" before the call
  nearby,              \* PlacesClient.nearby: retries, attempt, the HTTP outcomes so far
  users,               \* the user table: the committed rows, oldest first
  registering,         \* /auth/register: each request's email, position, response
  inflight             \* concurrent get_best_card_for_location calls: each one's
                       \* argument, position and locals

side_vars == <<card_name, normalized, coroutines, thread, redis, visits, token, auth,
              nearby, users, registering, inflight>>

vars == <<request_vars, side_vars>>


NoSpecificRecommendation ==
  <<"N","o"," ","s","p","e","c","i","f","i","c"," ",
    "r","e","c","o","m","m","e","n","d","a","t","i","o","n">>

on_base == <<"b","a","s","e">>

\* (canonical_category or 'base')
category_or_base(category) == IF Truthy(category) THEN category ELSE on_base

\* f"{row['card']} wins with {row['effective_multiplier']}x on {category or 'base'}<tail>"
wins(row, category, tail) ==
  [kind |-> "wins", card |-> row.card, multiplier |-> row.effective_multiplier,
   on |-> category_or_base(category), tail |-> tail, text |-> ""]

\* f"Unable to compute optimal card: {e}"
unable(e) ==
  [kind |-> "unable", card |-> None, multiplier |-> Zero, on |-> None,
   tail |-> "", text |-> e]

\* "Unavailable."
unavailable ==
  [kind |-> "unavailable", card |-> None, multiplier |-> Zero, on |-> None,
   tail |-> "", text |-> ""]

\* the explanation string of the reply, taken over as it is
model_text(text) ==
  [kind |-> "model", card |-> None, multiplier |-> Zero, on |-> None,
   tail |-> "", text |-> text]

NoExplanation ==
  [kind |-> "none", card |-> None, multiplier |-> Zero, on |-> None,
   tail |-> "", text |-> ""]

\* return {"recommended_card": ..., "explanation": ...}
Decision(card, explanation) ==
  [raised |-> FALSE, recommended_card |-> card, explanation |-> explanation]

\* an exception that leaves the call
Propagate(e) ==
  [raised |-> TRUE, recommended_card |-> None, explanation |-> unable(e)]

NoResult == [raised |-> FALSE, recommended_card |-> None, explanation |-> NoExplanation]

\* bool(row) of a row or None
RowTruthy(row) == row # NoneRow

\* except_handler without its inner try: reading the unbound `best` leaves the call
except_handler_unguarded(e, best_now, category) ==
  IF best_now = Unbound THEN Propagate("UnboundLocalError")
  ELSE IF RowTruthy(best_now)
  THEN Decision(best_now.card, wins(best_now, category, " (fallback)."))
  ELSE Decision(NoSpecificRecommendation, unable(e))

\* except Exception as e: the inner try reads `best`, which raises
\* UnboundLocalError while the name is unbound; the inner except passes on.
except_handler(e, best_now, category) ==
  IF best_now # Unbound /\ RowTruthy(best_now)
  THEN Decision(best_now.card, wins(best_now, category, " (fallback)."))
  ELSE Decision(NoSpecificRecommendation, unable(e))

preprocess_error_wallet_unchecked(file, metadata) ==
  IF ~file.readable THEN "FileNotFoundError"
  ELSE IF build_rows_raises(metadata.user_cards, file.data,
            canonicalize_category(metadata.category, metadata.mcc, metadata.place_types),
            {lc(metadata.user_rotating_active[i]) :
               i \in 1..Len(metadata.user_rotating_active)})
       THEN "could not convert string to float: 'n/a'"
  ELSE ""

\* the exception the code before the model call raises, "" when none
preprocess_error(file, metadata) ==
  IF ~file.readable THEN "FileNotFoundError"
  ELSE IF metadata.user_cards = <<>> THEN "No user_cards provided"
  ELSE IF build_rows_raises(metadata.user_cards, file.data,
            canonicalize_category(metadata.category, metadata.mcc, metadata.place_types),
            {lc(metadata.user_rotating_active[i]) :
               i \in 1..Len(metadata.user_rotating_active)})
       THEN "could not convert string to float: 'n/a'"
  ELSE ""

\* lines 417-481: load, wallet check, canonical category, rows, best, prompt
Preprocess ==
  /\ pc = "start"
  /\ LET e      == preprocess_error(rewards_json, location_metadata)
         md     == location_metadata
         cat    == canonicalize_category(md.category, md.mcc, md.place_types)
         active == {lc(md.user_rotating_active[i]) :
                      i \in 1..Len(md.user_rotating_active)}
         built  == build_rows(md.user_cards, rewards_json.data, cat, active)
     IN  IF e # ""
         THEN /\ result' = except_handler(e, best, canonical_category)
              /\ pc' = IF result'.raised THEN "raised" ELSE "returned"
              /\ IF rewards_json.readable /\ md.user_cards # <<>>
                 THEN canonical_category' = cat /\ rotating_active' = active
                 ELSE UNCHANGED <<canonical_category, rotating_active>>
              /\ UNCHANGED <<rows, best>>
         ELSE /\ canonical_category' = cat
              /\ rotating_active' = active
              /\ rows' = built
              /\ best' = deterministic_best(built)
              /\ pc' = "model_call"
              /\ UNCHANGED result
  /\ UNCHANGED <<rewards_json, location_metadata, reply, calls>>
  /\ UNCHANGED side_vars

NoReply == [kind |-> "none", recommended_card |-> None, explanation |-> ""]

\* gpt = {} when json.loads raises
EmptyObject == [kind |-> "json_object", recommended_card |-> None, explanation |-> ""]

\* index of next(r for r in rows if r["card"] == chosen_name)
first_row_named(rs, name) ==
  CHOOSE i \in 1..Len(rs) :
    rs[i].card = name /\ \A j \in 1..(i - 1) : rs[j].card # name

\* validate without the argmax check: an in-vocabulary card is accepted
validate_trusting(r, rs, best_now, category) ==
  LET gpt            == IF r.kind = "text" THEN EmptyObject ELSE r
      provided_names == {rs[i].card : i \in 1..Len(rs)}
      chosen_name    == gpt.recommended_card
  IN  IF chosen_name \notin provided_names \/ ~RowTruthy(best_now)
      THEN IF RowTruthy(best_now)
           THEN Decision(best_now.card,
                         wins(best_now, category, " (deterministic fallback)."))
           ELSE Decision(NoSpecificRecommendation, unavailable)
      ELSE LET chosen_row == rs[first_row_named(rs, chosen_name)]
           IN  Decision(chosen_row.card,
                        IF gpt.explanation # ""
                        THEN model_text(gpt.explanation)
                        ELSE wins(chosen_row, category, "."))

\* validate that corrects the card and keeps the reply's explanation
validate_keeping_text(r, rs, best_now, category) ==
  LET gpt            == IF r.kind = "text" THEN EmptyObject ELSE r
      provided_names == {rs[i].card : i \in 1..Len(rs)}
      chosen_name    == gpt.recommended_card
  IN  IF chosen_name \notin provided_names \/ ~RowTruthy(best_now)
      THEN IF RowTruthy(best_now)
           THEN Decision(best_now.card,
                         wins(best_now, category, " (deterministic fallback)."))
           ELSE Decision(NoSpecificRecommendation, unavailable)
      ELSE LET optimal == deterministic_best(rs)
           IN  Decision(optimal.card,
                        IF gpt.explanation # ""
                        THEN model_text(gpt.explanation)
                        ELSE wins(optimal, category, "."))

\* lines 495-531: parse and validate the reply
\* validate that treats every reply as out of set
validate_never_accepting(r, rs, best_now, category) ==
  IF RowTruthy(best_now)
  THEN Decision(best_now.card, wins(best_now, category, " (deterministic fallback)."))
  ELSE Decision(NoSpecificRecommendation, unavailable)

validate(r, rs, best_now, category) ==
  LET gpt            == IF r.kind = "text" THEN EmptyObject ELSE r
      provided_names == {rs[i].card : i \in 1..Len(rs)}
      chosen_name    == gpt.recommended_card
  IN  IF chosen_name \notin provided_names \/ ~RowTruthy(best_now)
      THEN IF RowTruthy(best_now)
           THEN Decision(best_now.card,
                         wins(best_now, category, " (deterministic fallback)."))
           ELSE Decision(NoSpecificRecommendation, unavailable)
      ELSE LET chosen_row == rs[first_row_named(rs, chosen_name)]
               optimal    == deterministic_best(rs)
           IN  IF RowTruthy(optimal) /\ chosen_row.card # optimal.card
               THEN Decision(optimal.card,
                             wins(optimal, category, " (corrected to argmax)."))
               ELSE Decision(chosen_row.card,
                             IF gpt.explanation # ""
                             THEN model_text(gpt.explanation)
                             ELSE wins(chosen_row, category, "."))

\* arbitrate whose except handler forgets the best row on a timeout
arbitrate_losing_best(r, rs, best_now, category) ==
  IF r.kind = "timeout" THEN except_handler("Request timed out.", Unbound, category)
  ELSE IF r.kind = "error" THEN except_handler("Connection error.", best_now, category)
  ELSE IF r.kind = "json_other"
       THEN except_handler("object has no attribute 'get'", best_now, category)
  ELSE validate(r, rs, best_now, category)

\* lines 483-549: the model call, the reply's validation, the except handler
arbitrate(r, rs, best_now, category) ==
  IF r.kind = "timeout" THEN except_handler("Request timed out.", best_now, category)
  ELSE IF r.kind = "error" THEN except_handler("Connection error.", best_now, category)
  ELSE IF r.kind = "json_other"
       THEN except_handler("object has no attribute 'get'", best_now, category)
  ELSE validate(r, rs, best_now, category)

Gamma == <<"G","a","m","m","a">>

\* the card names a reply may carry: none, a row's, a wallet entry as the
\* caller wrote it (before normalization), a card outside the wallet
ReplyCards ==
  {None, Gamma}
    \cup {rows[i].card : i \in 1..Len(rows)}
    \cup {location_metadata.user_cards[i] : i \in 1..Len(location_metadata.user_cards)}

Replies ==
  {[kind |-> k, recommended_card |-> None, explanation |-> ""] :
     k \in {"timeout", "error", "text", "json_other"}}
    \cup {[kind |-> "json_object", recommended_card |-> c, explanation |-> x] :
            c \in ReplyCards, x \in {"", "Best rate here."}}

ModelCall ==
  /\ pc = "model_call"
  /\ \E r \in Replies :
       /\ reply' = r
       /\ result' = arbitrate(r, rows, best, canonical_category)
       /\ pc' = IF result'.raised THEN "raised" ELSE "returned"
  /\ calls' = calls + 1
  /\ UNCHANGED <<rewards_json, location_metadata, canonical_category,
                 rotating_active, rows, best>>
  /\ UNCHANGED side_vars

Next == Preprocess \/ ModelCall

\* ----------------------------------------------------------- the inputs

MaxWallet == 2

Alpha == <<"A","l","p","h","a">>

Beta == <<"B","e","t","a">>

alpha == <<"a","l","p","h","a">>

amex_gold_card == <<"a","m","e","x"," ","g","o","l","d"," ","c","a","r","d">>

AmexGold == <<"A","m","e","x"," ","G","o","l","d">>

dining == <<"d","i","n","i","n","g">>

Wallets(names) == UNION {[1..n -> names] : n \in 0..MaxWallet}

Metadata(category, mcc, place_types, user_cards, active) ==
  [category |-> category, mcc |-> mcc, place_types |-> place_types,
   user_cards |-> user_cards, user_rotating_active |-> active]

Locals ==
  /\ pc = "start"
  /\ canonical_category = None
  /\ rotating_active = {}
  /\ rows = <<>>
  /\ best = Unbound
  /\ reply = NoReply
  /\ result = NoResult
  /\ calls = 0

\* Rules that make ties and near ties: Alpha and Beta each with a base rate
\* and possibly a dining rate, on or slightly off the grid; alpha has no profile.
TieBases == {JNum(10, 0), JNum(20, 0), JNum(20, 1)}

TieDining == {JNum(50, 0), JNum(50, 1), JNum(50, 60)}

TieProfiles ==
  {(everything_else :> b) : b \in TieBases}
    \cup {(everything_else :> b) @@ (dining :> d) : b \in TieBases, d \in TieDining}

InitTies ==
  /\ \E pa \in TieProfiles, pb \in TieProfiles :
       rewards_json =
         [readable |-> TRUE,
          data |-> [cards |-> (Alpha :> [rewards |-> pa]) @@ (Beta :> [rewards |-> pb])]]
  /\ \E w \in Wallets({Alpha, Beta, alpha}) :
       location_metadata = Metadata(None, <<"5","8","1","2">>, <<>>, w, <<>>)
  /\ Locals

\* Rules with the values a JSON file can hold: rates present, absent, null, 0
\* or no number at all; Amex Gold and Beta have a profile, alpha has none
\* (an empty profile).
RuleProfiles ==
  { (everything_else :> JNum(10, 0)) @@ (dining :> JNum(40, 0))
      @@ (travel :> JNum(30, 0)) @@ (rotating :> JNum(50, 0)),
    (everything_else :> JNum(20, 0)) @@ (dining :> JNum(50, 0))
      @@ (flights :> JNum(0, 0)) @@ (travel :> JNum(30, 0)),
    (everything_else :> JNull) @@ (flights :> JNum(20, 0))
      @@ (travel :> JNum(30, 0)) @@ (rotating :> JNull),
    (everything_else :> JNum(0, 0)) @@ (dining :> JStr),
    (dining :> JNum(30, 0)) @@ (hotels :> JNull) }

RuleFiles ==
  {[readable |-> FALSE, data |-> [cards |-> <<>>]]}
    \cup {[readable |-> TRUE,
           data |-> [cards |-> (AmexGold :> [rewards |-> pa]) @@ (Beta :> [rewards |-> pb])]] :
            pa \in RuleProfiles, pb \in RuleProfiles}

\* <<category, mcc, place_types>>
Signals ==
  { <<None, <<"5","8","1","2">>, <<>>>>,
    <<None, None, <<<<"a","i","r","p","o","r","t">>>>>>,
    <<<<" ","F","u","e","l"," ">>, None, <<>>>>,
    <<<<" ">>, None, <<>>>>,
    <<None, None, <<>>>> }

RotatingLists ==
  { <<>>,
    <<<<"D","i","n","i","n","g"," ">>, flights>> }

InitRules ==
  /\ rewards_json \in RuleFiles
  /\ \E s \in Signals, w \in Wallets({amex_gold_card, Beta, alpha}), a \in RotatingLists :
       location_metadata = Metadata(s[1], s[2], s[3], w, a)
  /\ Locals

\* every operation but the running one has not started
Idle(running) ==
  /\ running \notin {"request", "concurrent"} =>
       rewards_json = [readable |-> FALSE, data |-> [cards |-> <<>>]]
  /\ running # "request" =>
       /\ location_metadata = Metadata(None, None, <<>>, <<>>, <<>>)
       /\ Locals
  /\ running # "normalize" => card_name = <<>> /\ normalized = <<>>
  /\ running # "mock_visit" => coroutines = <<>> /\ thread = 0
  /\ running # "visit" => redis = <<>> /\ visits = <<>>
  /\ running # "auth" => token = <<>> /\ auth = <<>>
  /\ running # "nearby" => nearby = <<>>
  /\ running # "register" => users = <<>> /\ registering = <<>>
  /\ running # "concurrent" => inflight = <<>>

\* The worked example: Amex Gold and Citi Custom Cash at a restaurant.
ExampleRules ==
  [readable |-> TRUE,
   data |-> [cards |->
     (AmexGold :> [rewards |-> (dining :> JNum(40, 0)) @@ (everything_else :> JNum(10, 0))])
       @@ (<<"C","i","t","i"," ","C","u","s","t","o","m"," ","C","a","s","h">> :>
             [rewards |-> (dining :> JNum(50, 0)) @@ (everything_else :> JNum(10, 0))])]]

ExampleMetadata ==
  Metadata(None, <<"5","8","1","2">>, <<>>,
           <<AmexGold, <<"C","i","t","i"," ","C","u","s","t","o","m"," ","C","a","s","h">>>>, <<>>)

InitExample ==
  /\ rewards_json = ExampleRules
  /\ location_metadata = ExampleMetadata
  /\ Locals

Init == (InitTies \/ InitRules \/ InitExample) /\ Idle("request")

Spec == Init /\ [][Next]_vars

\* ------------------------------------------------------------ properties

RowNames == {rows[i].card : i \in 1..Len(rows)}

\* the text "<card> wins with <effective_multiplier>x on <category or 'base'><tail>"
WinsText(row, tail) ==
  [kind |-> "wins", card |-> row.card, multiplier |-> row.effective_multiplier,
   on |-> IF canonical_category \in {None, <<>>} THEN on_base ELSE canonical_category,
   tail |-> tail, text |-> ""]

\* C1: whenever the rows were built and the call has returned, whatever the
\* collaborator did (agreed, named another wallet card, named a card outside
\* the rows, sent no JSON, sent JSON that is no object, raised), the
\* recommended card is the card of deterministic_best(rows).
C1_CardIsDeterministicBest ==
  /\ pc # "raised"
  /\ (pc = "returned" /\ rows # <<>>) =>
       /\ ~result.raised
       /\ result.recommended_card = deterministic_best(rows).card

\* a reply named another card of the wallet and the call returned
C1_Witness ==
  /\ pc = "returned"
  /\ reply.kind = "json_object"
  /\ reply.recommended_card \in RowNames
  /\ reply.recommended_card # deterministic_best(rows).card

\* C3: a reply that parses and names a row's card other than the best one is
\* answered with the best card and the "(corrected to argmax)." text; the
\* reply's card and explanation are both dropped.
C3_DisagreementCorrected ==
  (/\ pc = "returned"
   /\ reply.kind = "json_object"
   /\ reply.recommended_card \in RowNames
   /\ reply.recommended_card # deterministic_best(rows).card) =>
     /\ result.recommended_card = deterministic_best(rows).card
     /\ result.explanation = WinsText(deterministic_best(rows), " (corrected to argmax).")

\* a disagreeing reply that carried an explanation of its own
C3_Witness ==
  /\ pc = "returned"
  /\ reply.kind = "json_object"
  /\ reply.explanation # ""
  /\ reply.recommended_card \in RowNames
  /\ reply.recommended_card # best.card
  /\ Len(rows) = 2

\* C4, as claimed: a reply that parses (an object, or JSON that is no object)
\* and carries no card of the rows is answered, without raising, with the best
\* card and the "(deterministic fallback)." text.
C4_ParsedOutOfVocabularyFallsBack ==
  (/\ pc = "returned"
   /\ reply.kind \in {"json_object", "json_other"}
   /\ reply.recommended_card \notin RowNames) =>
     /\ ~result.raised
     /\ result.recommended_card = best.card
     /\ result.explanation = WinsText(best, " (deterministic fallback).")

C6_NeverRaises ==
  /\ pc # "raised"
  /\ pc = "returned" =>
       /\ ~result.raised
       /\ result.recommended_card \in RowNames \cup {NoSpecificRecommendation}
  /\ (pc = "returned" /\ reply.kind \in {"timeout", "error", "json_other"}) =>
       result.recommended_card = best.card
  /\ (pc = "returned" /\ reply = NoReply) =>
       /\ result.recommended_card = NoSpecificRecommendation
       /\ result.explanation.kind = "unable"
       /\ result.explanation.text \in
            {"FileNotFoundError", "No user_cards provided",
             "could not convert string to float: 'n/a'"}

\* a rate that is no number stopped build_rows and the call still returned
C6_Witness ==
  /\ pc = "returned"
  /\ rewards_json.readable
  /\ location_metadata.user_cards # <<>>
  /\ reply = NoReply
  /\ result.recommended_card = NoSpecificRecommendation

\* C7: an empty wallet is answered with the sentinel as a return value; the
\* request never raises and never reaches the model call.
C7_EmptyWalletSentinel ==
  location_metadata.user_cards = <<>> =>
    /\ pc \in {"start", "returned"}
    /\ pc = "returned" =>
         /\ ~result.raised
         /\ result.recommended_card = NoSpecificRecommendation

\* an empty wallet with readable rules has been answered
C7_Witness ==
  /\ pc = "returned"
  /\ rewards_json.readable
  /\ location_metadata.user_cards = <<>>
  /\ result.explanation = unable("No user_cards provided")


FloatLeq(a, b) ==
  a.tenths < b.tenths \/ (a.tenths = b.tenths /\ a.ulps <= b.ulps)

\* build_rows and deterministic_best have run; rows and best do not change afterwards
RowsBuilt == pc = "model_call" /\ rows # <<>>

\* the largest effective multiplier of the rows
MaxEff ==
  CHOOSE m \in {rows[i].effective_multiplier : i \in 1..Len(rows)} :
    \A i \in 1..Len(rows) : FloatLeq(rows[i].effective_multiplier, m)

\* the rows that tie on the effective multiplier, within the tolerance
EffTied == {i \in 1..Len(rows) : isclose(rows[i].effective_multiplier, MaxEff)}

\* the largest base multiplier among them
MaxBase ==
  CHOOSE m \in {rows[i].base_multiplier : i \in EffTied} :
    \A i \in EffTied : FloatLeq(rows[i].base_multiplier, m)

\* those of them that tie on the base multiplier too, within the tolerance
BaseTied == {i \in EffTied : isclose(rows[i].base_multiplier, MaxBase)}

\* C2, as claimed: the effective multiplier of the row deterministic_best
\* returns equals the largest effective multiplier of the rows.
C2_BestHasMaxEffective ==
  RowsBuilt => best.effective_multiplier = MaxEff

\* C2, amended: the row returned is one of the rows and its effective
\* multiplier is within the closeness tolerance of the largest; it equals the
\* largest when no other row is within the tolerance.
C2_BestWithinToleranceOfMax ==
  RowsBuilt =>
    /\ \E i \in 1..Len(rows) : best = rows[i]
    /\ isclose(best.effective_multiplier, MaxEff)
    /\ Cardinality(EffTied) = 1 => best.effective_multiplier = MaxEff

\* two rows within the tolerance, and the one returned is not the largest
C2_Witness ==
  /\ RowsBuilt
  /\ Cardinality(EffTied) = 2
  /\ best.effective_multiplier # MaxEff

\* C8, as claimed: when two or more rows tie on the effective multiplier and
\* exactly one of them has the highest base multiplier, that row is returned.
C8_HighestBaseWins ==
  (RowsBuilt /\ Cardinality(EffTied) >= 2) =>
    \A i \in EffTied :
      (\A j \in EffTied \ {i} :
         /\ FloatLeq(rows[j].base_multiplier, rows[i].base_multiplier)
         /\ rows[j].base_multiplier # rows[i].base_multiplier)
      => best = rows[i]

\* C8, amended: when two or more rows tie on the effective multiplier and
\* exactly one of them has a base multiplier within the tolerance of the
\* highest, that row is returned, whatever the names and the order.
C8_HighestBaseWinsBeyondTolerance ==
  (RowsBuilt /\ Cardinality(EffTied) >= 2 /\ Cardinality(BaseTied) = 1) =>
    \A i \in BaseTied : best = rows[i]

\* Alpha first and Beta second tie on the effective multiplier, and Beta is
\* returned for its base multiplier
C8_Witness ==
  /\ RowsBuilt
  /\ Cardinality(EffTied) = 2
  /\ Cardinality(BaseTied) = 1
  /\ rows[1].card = Alpha
  /\ best.card = Beta

\* a <= b on str, by code point: equal, a proper prefix, or smaller at the
\* first position where the two differ
CodePointLeq(a, b) ==
  \/ a = b
  \/ \E k \in 1..(Len(b)) :
       /\ \A j \in 1..(k - 1) : j <= Len(a) /\ a[j] = b[j]
       /\ \/ k = Len(a) + 1
          \/ k <= Len(a) /\ ord(a[k]) < ord(b[k])

\* C9: when two or more rows are left after both filters, the row returned is
\* one of them and its card is the smallest of theirs by code point, so that
\* upper case sorts before lower case.
C9_SmallestCardWins ==
  (RowsBuilt /\ Cardinality(BaseTied) >= 2) =>
    /\ \E i \in BaseTied : best = rows[i]
    /\ \A i \in BaseTied : CodePointLeq(best.card, rows[i].card)

\* alpha first and Beta second tie on both multipliers, and Beta is returned
C9_Witness ==
  /\ RowsBuilt
  /\ BaseTied = {1, 2}
  /\ rows[1].card = alpha
  /\ rows[2].card = Beta
  /\ best.card = Beta

\* the 'rotating' entry of the profile of a row's card, 0 when there is none
RotatingEntry(card) ==
  LET cards == rewards_json.data.cards
      rw    == IF card \in DOMAIN cards THEN cards[card].rewards ELSE <<>>
  IN  IF rotating \in DOMAIN rw /\ rw[rotating].type = "number"
      THEN F(rw[rotating].tenths, rw[rotating].ulps)
      ELSE Zero

\* C10: a row's rotating multiplier is 0 when there is no canonical category
\* or the category is not in the active rotating set, whatever the profile's
\* 'rotating' rate; when the category is in the set it is that rate.
C10_RotatingGated ==
  RowsBuilt =>
    \A i \in 1..Len(rows) :
      rows[i].rotating_multiplier =
        IF canonical_category = None \/ canonical_category \notin rotating_active
        THEN Zero
        ELSE RotatingEntry(rows[i].card)

\* a card with a 'rotating' rate of 5 got 0 for a category that is not active
\* while other categories are
C10_Witness ==
  /\ RowsBuilt
  /\ rotating_active # {}
  /\ canonical_category \notin rotating_active
  /\ \E i \in 1..Len(rows) :
       /\ RotatingEntry(rows[i].card) = F(50, 0)
       /\ rows[i].rotating_multiplier = Zero

\* ------------------------------------- canonicalize_category precedence

MaxTypes == 2

\* Requests that carry an MCC, place types and a free-text category at
\* once: each signal present or absent, known or unknown, as the caller
\* wrote it (padded, capitalised).
InitCanon ==
  LET categories == { None, <<>>, <<" ">>, <<"g","a","s">>, <<" ","F","u","e","l"," ">>,
                      <<" ","B","o","w","l","i","n","g"," ">> }
      mccs       == { None, <<>>, <<"5","8","1","2">>, <<" ","5","8","1","2"," ">>,
                      <<"5","5","4","1">>, <<"0","0","0","0">> }
      types      == { <<"r","e","s","t","a","u","r","a","n","t">>, <<"A","i","r","p","o","r","t">>,
                      <<"g","a","s","_","s","t","a","t","i","o","n">>, <<"z","o","o">> }
      profile    == (everything_else :> JNum(10, 0)) @@ (dining :> JNum(40, 0))
                      @@ (travel :> JNum(30, 0))
  IN  /\ rewards_json =
           [readable |-> TRUE, data |-> [cards |-> (Beta :> [rewards |-> profile])]]
      /\ \E c \in categories, m \in mccs,
            t \in UNION {[1..n -> types] : n \in 0..MaxTypes} :
           location_metadata = Metadata(c, m, t, <<Beta>>, <<>>)
      /\ Locals
      /\ Idle("request")

SpecCanon == InitCanon /\ [][Next]_vars

\* the MCC of the request as the table is asked for it
AskedMcc ==
  LET mcc == location_metadata.mcc
  IN  IF mcc = None THEN <<>> ELSE strip(mcc)

\* the positions of the place types that the type table knows
KnownTypes ==
  {i \in 1..Len(location_metadata.place_types) :
     lower(location_metadata.place_types[i]) \in DOMAIN type_map}

Canonicalized == pc \in {"model_call", "returned"} /\ rows # <<>>

\* C11: canonicalize_category resolves in strict precedence, first match
\* wins: an MCC that is in the MCC table decides the category whatever the
\* place types and the free text are; otherwise the first place type, in
\* list order, that is in the type table decides it whatever the free text
\* is; the free text decides only when neither matched.
C11_StrictPrecedence ==
  Canonicalized =>
    LET md == location_metadata
    IN  /\ AskedMcc \in DOMAIN mcc_map => canonical_category = mcc_map[AskedMcc]
        /\ AskedMcc \notin DOMAIN mcc_map /\ KnownTypes # {} =>
             \E i \in KnownTypes :
               /\ \A j \in KnownTypes : i <= j
               /\ canonical_category = type_map[lower(md.place_types[i])]
        /\ AskedMcc \notin DOMAIN mcc_map /\ KnownTypes = {} =>
             canonical_category =
               IF ~Truthy(md.category) THEN None
               ELSE DictGet(cat_alias, strip(lower(md.category)), strip(lower(md.category)))

\* MCC "5812" with free text "gas" and a gas station among the place types
\* has resolved to "dining"
C11_Witness ==
  /\ Canonicalized
  /\ location_metadata.mcc = <<"5","8","1","2">>
  /\ location_metadata.category = <<"g","a","s">>
  /\ \E i \in KnownTypes :
       location_metadata.place_types[i] = <<"g","a","s","_","s","t","a","t","i","o","n">>
  /\ canonical_category = dining

\* --------------------------------------- normalize_card_name, repeated

MaxApplications == 2

\* every alias key, every canonical name, each of them padded, in capitals
\* or both, the empty string, blanks, and names the table does not know
InitNormalize ==
  LET upper(s)  == [i \in 1..Len(s) |->
                      IF IsIn(LowerCase, s[i])
                      THEN UpperCase[IndexIn(LowerCase, s[i])] ELSE s[i]]
      padded(s) == <<" ">> \o s \o <<" ">>
      names     == DOMAIN card_mappings
                     \cup {card_mappings[k] : k \in DOMAIN card_mappings}
                     \cup {Gamma, alpha}
  IN  /\ card_name \in names \cup {padded(k) : k \in names}
                         \cup {upper(k) : k \in names}
                         \cup {padded(upper(k)) : k \in names}
                         \cup {<<>>, <<" ">>}
      /\ normalized = <<>>
      /\ Idle("normalize")

\* a caller passes the name it holds, or the value the previous call returned
Normalize ==
  /\ Len(normalized) < MaxApplications
  /\ normalized' = Append(normalized,
       normalize_card_name(IF normalized = <<>> THEN card_name
                           ELSE normalized[Len(normalized)]))
  /\ UNCHANGED <<card_name, request_vars, coroutines, thread, redis, visits, token, auth, nearby, users, registering, inflight>>

SpecNormalize == InitNormalize /\ [][Normalize]_vars

\* C12: normalize_card_name is idempotent: normalizing a value that
\* normalize_card_name returned gives that value again, for alias keys,
\* canonical names, padded or capitalised names, the empty string and
\* unknown names.
C12_NormalizeIdempotent ==
  \A i \in 2..Len(normalized) : normalized[i] = normalized[i - 1]

\* an alias written in capitals with blanks around it was translated by the
\* first call and kept by the second
C12_Witness ==
  /\ Len(normalized) >= 2
  /\ card_name = <<" ","A","M","E","X"," ","G","O","L","D"," ","C","A","R","D"," ">>
  /\ normalized[1] = AmexGold
  /\ normalized[2] = AmexGold

\* ------------------------------------------- the rules file and the call

\* C13: the reward rules are loaded once at process start and a missing or
\* malformed rules file is fatal there, so no recommendation request is
\* answered (with a card or with the sentinel) while the rules are missing.
C13_NoAnswerWithoutRules ==
  ~rewards_json.readable => pc # "returned"

\* C14: within one request the chat completion is called at most once,
\* whatever the reply was, and not at all when the wallet is empty.
C14_AtMostOneCall ==
  /\ calls <= 1
  /\ location_metadata.user_cards = <<>> => calls = 0
  /\ reply # NoReply => calls = 1

\* a request has returned after a failed call without calling again
C14_Witness ==
  /\ pc = "returned"
  /\ reply.kind \in {"timeout", "error"}
  /\ calls = 1

\* --------------------------------------------------- the worked example

IsExample == rewards_json = ExampleRules /\ location_metadata = ExampleMetadata

\* C17: with wallet ["Amex Gold", "Citi Custom Cash"], MCC "5812", no
\* active rotating categories and rules Amex Gold {dining 4, everything_else 1},
\* Citi Custom Cash {dining 5, everything_else 1}, the rows have effective
\* multipliers 4 and 5 in wallet order and the request returns
\* recommended_card "Citi Custom Cash" whatever the collaborator replied.
C17_EndToEndExample ==
  IsExample =>
    /\ pc # "raised"
    /\ pc \in {"model_call", "returned"} =>
         /\ Len(rows) = 2
         /\ rows[1].card = AmexGold
         /\ rows[1].effective_multiplier = F(40, 0)
         /\ rows[2].card = <<"C","i","t","i"," ","C","u","s","t","o","m"," ","C","a","s","h">>
         /\ rows[2].effective_multiplier = F(50, 0)
    /\ pc = "returned" =>
         result.recommended_card = <<"C","i","t","i"," ","C","u","s","t","o","m"," ","C","a","s","h">>

\* the example has returned Citi Custom Cash although the reply named Amex Gold
C17_Witness ==
  /\ IsExample
  /\ pc = "returned"
  /\ reply.kind = "json_object"
  /\ reply.recommended_card = AmexGold
  /\ result.recommended_card = <<"C","i","t","i"," ","C","u","s","t","o","m"," ","C","a","s","h">>

\* ------------------------------------- mock_visit on the event loop

\* The server process runs every request handler as a coroutine on one
\* event loop with one thread.  A coroutine gives the thread up only at an
\* await that suspends it: mock_visit awaits places_client.nearby (HTTP through
\* httpx.AsyncClient) and then awaits analyze_location_and_recommend_card,
\* which itself never suspends: it calls the synchronous
\* chat.completions.create and keeps the thread until that call returns.
MaxRequests == 3

InitLoop ==
  /\ coroutines = [r \in 1..MaxRequests |-> "new"]
  /\ thread = 0
  /\ Idle("mock_visit")

\* the loop starts the handler, which runs up to the await of nearby
Start(r) ==
  /\ coroutines[r] = "new"
  /\ thread = 0
  /\ coroutines' = [coroutines EXCEPT ![r] = "awaiting_places"]
  /\ UNCHANGED <<thread, request_vars, card_name, normalized, redis, visits, token, auth, nearby, users, registering, inflight>>

\* the HTTP response (or timeout) of the places API arrives
PlacesResponds(r) ==
  /\ coroutines[r] = "awaiting_places"
  /\ coroutines' = [coroutines EXCEPT ![r] = "ready"]
  /\ UNCHANGED <<thread, request_vars, card_name, normalized, redis, visits, token, auth, nearby, users, registering, inflight>>

\* the loop resumes the handler: it raises 404 for no places, 500 for a
\* failure of nearby, or goes on into the chat completion call
Resume(r) ==
  /\ coroutines[r] = "ready"
  /\ thread = 0
  /\ \E outcome \in {"not_found", "failed", "in_model_call"} :
       /\ coroutines' = [coroutines EXCEPT ![r] = outcome]
       /\ thread' = IF outcome = "in_model_call" THEN r ELSE 0
  /\ UNCHANGED <<request_vars, card_name, normalized, redis, visits, token, auth, nearby, users, registering, inflight>>

\* the chat completion call returns or raises; the handler runs to its end
ModelReplies(r) ==
  /\ coroutines[r] = "in_model_call"
  /\ thread = r
  /\ coroutines' = [coroutines EXCEPT ![r] = "answered"]
  /\ thread' = 0
  /\ UNCHANGED <<request_vars, card_name, normalized, redis, visits, token, auth, nearby, users, registering, inflight>>

NextLoop ==
  \E r \in 1..MaxRequests :
    Start(r) \/ PlacesResponds(r) \/ Resume(r) \/ ModelReplies(r)

SpecLoop == InitLoop /\ [][NextLoop]_vars

\* C16: a request waiting on the chat completion does not block the other
\* requests of the process: while one request's call is outstanding, every
\* other request that has work to do can take its next step.
C16_OthersNotBlocked ==
  \A r \in 1..MaxRequests, q \in 1..MaxRequests :
    /\ coroutines[r] = "in_model_call"
    /\ q # r
    /\ coroutines[q] \in {"new", "ready"}
    => ENABLED (Start(q) \/ Resume(q))

\* ------------------------------ process_visit_event and set_idempotency

MaxVisits == 2

MaxExpiries == 1

IdempotencyKeys == {"k1", "k2"}

\* what SET key "1" EX ttl NX answers: True when it stored the key, None
\* when the key was there
set_nx_overwriting(present) == "True"

set_nx(present) == IF present THEN "None" ELSE "True"

\* set_idempotency: `return result is True`, and False from the except clause
set_idempotency(raised, answered) == IF raised THEN FALSE ELSE answered = "True"

\* process_visit_event after set_idempotency returned
VisitResponse(is_new) == IF is_new THEN "accepted" ELSE "duplicate"

\* Each request carries an Idempotency-Key header or none.  window is the
\* number of times the key's TTL had run out when the request's SET ran,
\* stored whether that SET stored the key.
InitVisits ==
  /\ redis = [k \in IdempotencyKeys |-> [present |-> FALSE, expiries |-> 0]]
  /\ \E headers \in [1..MaxVisits -> IdempotencyKeys \cup {"None"}] :
       visits = [r \in 1..MaxVisits |->
                   [key |-> headers[r], pc |-> "new", answer |-> "",
                    window |-> 0, stored |-> FALSE]]
  /\ Idle("visit")

\* the handler runs up to the first await: the header check, then
\* set_idempotency finds self.client unset and awaits connect()
Receive(r) ==
  /\ visits[r].pc = "new"
  /\ visits' = [visits EXCEPT ![r] =
       IF visits[r].key = "None"
       THEN [@ EXCEPT !.pc = "done", !.answer = "MISSING_IDEMPOTENCY_KEY"]
       ELSE [@ EXCEPT !.pc = "connecting"]]
  /\ UNCHANGED <<redis, request_vars, card_name, normalized, coroutines, thread, token, auth, nearby, users, registering, inflight>>

\* connect() ends: with a client, and SET is sent; or with client = None,
\* and self.client.set raises inside the try of set_idempotency
Connected(r) ==
  /\ visits[r].pc = "connecting"
  /\ \E ok \in BOOLEAN :
       visits' = [visits EXCEPT ![r] =
         IF ok THEN [@ EXCEPT !.pc = "setting"]
         ELSE [@ EXCEPT !.pc = "done",
                        !.answer = VisitResponse(set_idempotency(TRUE, "None"))]]
  /\ UNCHANGED <<redis, request_vars, card_name, normalized, coroutines, thread, token, auth, nearby, users, registering, inflight>>

\* the SET is executed by the server and answered, or the await raises:
\* before the server executed it, or after (the reply was lost)
SetAnswered(r) ==
  /\ visits[r].pc = "setting"
  /\ \E outcome \in {"answered", "raised_before", "raised_after"} :
       LET k        == visits[r].key
           executed == outcome # "raised_before"
           answered == set_nx(redis[k].present)
           stores   == executed /\ answered = "True"
       IN  /\ redis' = IF stores THEN [redis EXCEPT ![k].present = TRUE] ELSE redis
           /\ visits' = [visits EXCEPT ![r] =
                [@ EXCEPT !.pc = "done",
                          !.window = redis[k].expiries,
                          !.stored = stores,
                          !.answer = VisitResponse(
                             set_idempotency(outcome # "answered", answered))]]
  /\ UNCHANGED <<request_vars, card_name, normalized, coroutines, thread, token, auth, nearby, users, registering, inflight>>

\* the TTL of a stored key runs out
Expire(k) ==
  /\ redis[k].present
  /\ redis[k].expiries < MaxExpiries
  /\ redis' = [redis EXCEPT ![k] = [present |-> FALSE, expiries |-> @.expiries + 1]]
  /\ UNCHANGED <<visits, request_vars, card_name, normalized, coroutines, thread, token, auth, nearby, users, registering, inflight>>

NextVisits ==
  \/ \E r \in 1..MaxVisits : Receive(r) \/ Connected(r) \/ SetAnswered(r)
  \/ \E k \in IdempotencyKeys : Expire(k)

SpecVisits == InitVisits /\ [][NextVisits]_vars

\* C18: of the requests that carry the same Idempotency-Key within one TTL
\* of the key, whatever their order and interleaving, at most one is
\* answered "accepted".
C18_AtMostOneAccepted ==
  \A r \in 1..MaxVisits, q \in 1..MaxVisits :
    /\ r # q
    /\ visits[r].key = visits[q].key
    /\ visits[r].answer = "accepted"
    /\ visits[q].answer = "accepted"
    => visits[r].window # visits[q].window

\* of two requests with the same key, within one TTL of the key, one has
\* been accepted and the other answered duplicate
C18_Witness ==
  \E r \in 1..MaxVisits, q \in 1..MaxVisits :
    /\ r # q
    /\ visits[r].key = visits[q].key
    /\ visits[r].answer = "accepted"
    /\ visits[q].answer = "duplicate"
    /\ visits[q].window = visits[r].window
    /\ redis[visits[r].key].present

\* C19: set_idempotency returns True if the key was newly set and False if
\* it already existed, so a request is answered "duplicate" only when
\* another request with the same key had stored the key before; a failure
\* while processing is answered EVENT_PROCESSING_ERROR, never "duplicate".
C19_DuplicateMeansAlreadySet ==
  \A r \in 1..MaxVisits :
    visits[r].answer = "duplicate" =>
      \E q \in 1..MaxVisits :
        /\ q # r
        /\ visits[q].key = visits[r].key
        /\ visits[q].stored

\* ------------------------- verify_access_token, verify_refresh_token

\* `sub in s` on str
contains(s, sub) ==
  \E i \in 1..(Len(s) - Len(sub) + 1) : SubSeq(s, i, i + Len(sub) - 1) = sub

\* the except JWTError clause: the custom exception chosen from the message
reraise(message) ==
  IF contains(lower(message), <<"e","x","p","i","r","e","d">>) THEN "JWTTokenExpiredError"
  ELSE IF contains(lower(message), <<"i","n","v","a","l","i","d">>) THEN "JWTTokenInvalidError"
  ELSE "JWTTokenDecodeError"

\* The body shared by verify_access_token and verify_refresh_token.  The
\* exceptions the try block raises itself are no JWTError: the
\* `except Exception` clause catches them and raises JWTTokenError.
verify_token(t, expected_type) ==
  IF t.decode = "JWTError" THEN reraise(t.message)
  ELSE IF t.type # expected_type THEN "JWTTokenError"
  ELSE IF t.exp_passed THEN "JWTTokenError"
  ELSE "payload"

verify_access_token(t) == verify_token(t, "access")

verify_refresh_token(t) == verify_token(t, "refresh")

\* user ids the user store holds
Users == {"1"}

\* POST /auth/refresh
refresh_token(t) ==
  LET verified == verify_refresh_token(t)
  IN  IF verified = "JWTTokenExpiredError" THEN "TOKEN_EXPIRED"
      ELSE IF verified \in {"JWTTokenInvalidError", "JWTTokenDecodeError"}
           THEN "INVALID_REFRESH_TOKEN"
      ELSE IF verified = "JWTTokenError" THEN "TOKEN_ERROR"
      ELSE IF t.sub = "None" THEN "INVALID_TOKEN_PAYLOAD"
      ELSE IF t.sub \notin Users THEN "USER_NOT_FOUND"
      ELSE "AuthResponse"

\* A token is what jwt.decode makes of it: a JWTError with a message, or a
\* payload with its type and sub claims; exp_passed is what the function's
\* own comparison of the clock with the exp claim gives after decode
\* accepted the token.
InitTokens ==
  LET messages == { <<"S","i","g","n","a","t","u","r","e"," ","h","a","s"," ","e","x","p","i","r","e","d",".">>,
                    <<"S","i","g","n","a","t","u","r","e"," ","v","e","r","i","f","i","c","a","t","i","o","n"," ","f","a","i","l","e","d",".">>,
                    <<"N","o","t"," ","e","n","o","u","g","h"," ","s","e","g","m","e","n","t","s">>,
                    <<"I","n","v","a","l","i","d"," ","c","r","y","p","t","o"," ","p","a","d","d","i","n","g">> }
  IN  /\ \/ \E m \in messages :
              token = [decode |-> "JWTError", message |-> m, type |-> "None",
                       exp_passed |-> FALSE, sub |-> "None"]
         \/ \E ty \in {"access", "refresh", "None"}, late \in BOOLEAN,
               sub \in {"None", "1", "2"} :
              token = [decode |-> "payload", message |-> <<>>, type |-> ty,
                       exp_passed |-> late, sub |-> sub]
      /\ auth = [access |-> "", refresh |-> "", route |-> ""]
      /\ Idle("auth")

VerifyAccess ==
  /\ auth.access = ""
  /\ auth' = [auth EXCEPT !.access = verify_access_token(token)]
  /\ UNCHANGED <<token, request_vars, card_name, normalized, coroutines, thread, redis, visits, nearby, users, registering, inflight>>

VerifyRefresh ==
  /\ auth.refresh = ""
  /\ auth' = [auth EXCEPT !.refresh = verify_refresh_token(token)]
  /\ UNCHANGED <<token, request_vars, card_name, normalized, coroutines, thread, redis, visits, nearby, users, registering, inflight>>

RefreshRoute ==
  /\ auth.route = ""
  /\ auth' = [auth EXCEPT !.route = refresh_token(token)]
  /\ UNCHANGED <<token, request_vars, card_name, normalized, coroutines, thread, redis, visits, nearby, users, registering, inflight>>

NextTokens == VerifyAccess \/ VerifyRefresh \/ RefreshRoute

SpecTokens == InitTokens /\ [][NextTokens]_vars

\* C20: verify_access_token returns a payload only for type "access" and
\* verify_refresh_token only for type "refresh"; a decoded token of the
\* wrong type is rejected with JWTTokenInvalidError and one past its exp
\* with JWTTokenExpiredError, so /auth/refresh answers
\* INVALID_REFRESH_TOKEN to an access token.
C20_WrongTypeIsInvalidError ==
  token.decode = "payload" =>
    /\ auth.access = "payload" => token.type = "access"
    /\ auth.refresh = "payload" => token.type = "refresh"
    /\ auth.access # "" /\ token.type # "access" => auth.access = "JWTTokenInvalidError"
    /\ auth.refresh # "" /\ token.type # "refresh" => auth.refresh = "JWTTokenInvalidError"
    /\ auth.route # "" /\ token.type = "access" => auth.route = "INVALID_REFRESH_TOKEN"

\* ------------------------------------------------- the rows of build_rows

\* the profile of a card in the rules, empty when the rules have none
ProfileOf(card) ==
  LET cards == rewards_json.data.cards
  IN  IF card \in DOMAIN cards THEN cards[card].rewards ELSE <<>>

\* the number a profile holds for a token, 0 when absent or null
Rate(rw, key) ==
  IF key \in DOMAIN rw /\ rw[key].type = "number"
  THEN F(rw[key].tenths, rw[key].ulps) ELSE Zero

\* C21: build_rows returns one row per wallet entry in wallet order: as many
\* rows as wallet entries (duplicates included), row i carrying
\* normalize_card_name(wallet[i]).
C21_OneRowPerWalletEntry ==
  RowsBuilt =>
    /\ Len(rows) = Len(location_metadata.user_cards)
    /\ \A i \in 1..Len(rows) :
         rows[i].card = normalize_card_name(location_metadata.user_cards[i])

\* a wallet that names the same alias twice gave two rows, both with the
\* canonical name
C21_Witness ==
  /\ RowsBuilt
  /\ location_metadata.user_cards = <<amex_gold_card, amex_gold_card>>
  /\ Len(rows) = 2
  /\ rows[1].card = AmexGold
  /\ rows[2].card = AmexGold

\* C22: every row has effective_multiplier = max(base_multiplier,
\* category_multiplier, rotating_multiplier), hence effective_multiplier >=
\* base_multiplier.
C22_EffectiveIsMax ==
  RowsBuilt =>
    \A i \in 1..Len(rows) :
      LET r == rows[i]
      IN  /\ r.effective_multiplier \in
               {r.base_multiplier, r.category_multiplier, r.rotating_multiplier}
          /\ FloatLeq(r.base_multiplier, r.effective_multiplier)
          /\ FloatLeq(r.category_multiplier, r.effective_multiplier)
          /\ FloatLeq(r.rotating_multiplier, r.effective_multiplier)

\* a row whose rotating multiplier is above its category multiplier, which
\* is above its base multiplier
C22_Witness ==
  /\ RowsBuilt
  /\ \E i \in 1..Len(rows) :
       /\ rows[i].base_multiplier = F(10, 0)
       /\ rows[i].category_multiplier = F(40, 0)
       /\ rows[i].rotating_multiplier = F(50, 0)
       /\ rows[i].effective_multiplier = F(50, 0)

\* C23: a wallet card without a profile in the rules gets the row base 1.0,
\* category 0, rotating 0, effective 1.0 and does not fail the request; for
\* a card with a profile base_multiplier is the profile's everything_else,
\* or 1.0 when that entry is missing, 0 or null.
C23_DefaultsForMissingProfile ==
  RowsBuilt =>
    \A i \in 1..Len(rows) :
      LET r  == rows[i]
          rw == ProfileOf(r.card)
      IN  /\ r.card \notin DOMAIN rewards_json.data.cards =>
               /\ r.base_multiplier = One
               /\ r.category_multiplier = Zero
               /\ r.rotating_multiplier = Zero
               /\ r.effective_multiplier = One
          /\ r.card \in DOMAIN rewards_json.data.cards =>
               r.base_multiplier =
                 IF Rate(rw, everything_else) = Zero THEN One
                 ELSE Rate(rw, everything_else)

\* rows were built for a card without a profile and for a card whose
\* profile has no everything_else entry
C23_Witness ==
  /\ RowsBuilt
  /\ \E i \in 1..Len(rows), j \in 1..Len(rows) :
       /\ rows[i].card = alpha
       /\ rows[i].effective_multiplier = One
       /\ rows[j].card \in DOMAIN rewards_json.data.cards
       /\ everything_else \notin DOMAIN ProfileOf(rows[j].card)
       /\ rows[j].base_multiplier = One
       /\ rows[j].category_multiplier = F(30, 0)

\* C24: category_multiplier is 0 when the canonical category is None and
\* otherwise the profile's value for that token (0 if absent); the generic
\* 'travel' entry is used only for flights, hotels and transit and only
\* when the profile has no entry for that token: a profile that has an
\* entry for it, whatever its value, never takes the 'travel' value.
C24_TravelOnlyWithoutEntry ==
  RowsBuilt =>
    \A i \in 1..Len(rows) :
      LET rw == ProfileOf(rows[i].card)
          cc == cc_of(canonical_category)
      IN  rows[i].category_multiplier =
            IF cc = None THEN Zero
            ELSE IF cc \in DOMAIN rw THEN Rate(rw, cc)
            ELSE IF cc \in {flights, hotels, transit} THEN Rate(rw, travel)
            ELSE Zero

\* ---------------------------------------- the free text and no category

\* C25: when neither the MCC nor a place type matches, a present free-text
\* category is lowercased and trimmed and its alias-table value returned,
\* or the lowercased and trimmed text itself when the table does not know
\* it; the result is None exactly when the MCC does not match, no place
\* type matches and no free text is present.
C25_FreeTextOrNone ==
  Canonicalized =>
    LET md          == location_metadata
        unmatched   == AskedMcc \notin DOMAIN mcc_map /\ KnownTypes = {}
        text        == strip(lower(md.category))
    IN  /\ unmatched /\ Truthy(md.category) =>
             canonical_category =
               IF text \in DOMAIN cat_alias THEN cat_alias[text] ELSE text
        /\ canonical_category = None <=> unmatched /\ ~Truthy(md.category)

\* " Bowling " with an unknown MCC and an unknown place type has resolved
\* to "bowling"
C25_Witness ==
  /\ Canonicalized
  /\ location_metadata.category = <<" ","B","o","w","l","i","n","g"," ">>
  /\ location_metadata.mcc = <<"0","0","0","0">>
  /\ location_metadata.place_types = << <<"z","o","o">> >>
  /\ canonical_category = <<"b","o","w","l","i","n","g">>

\* ------------------------------------------------ an agreeing reply

Agreed ==
  /\ pc = "returned"
  /\ rows # <<>>
  /\ reply.kind = "json_object"
  /\ reply.recommended_card = best.card

\* C26: when the reply parses and names exactly best.card, the Decision
\* returns that card with the reply's explanation if it is non-empty, and
\* otherwise "<card> wins with <effective_multiplier>x on <canonical
\* category or 'base'>." without the "(deterministic fallback)" or
\* "(corrected to argmax)" suffix.
C26_AgreementAccepted ==
  Agreed =>
    /\ result.recommended_card = best.card
    /\ result.explanation =
         IF reply.explanation # "" THEN model_text(reply.explanation)
         ELSE WinsText(best, ".")

\* an agreeing reply without explanation was answered with the synthesized
\* text for a request without any category signal
C26_Witness ==
  /\ Agreed
  /\ reply.explanation = ""
  /\ canonical_category = None
  /\ result.explanation.kind = "wins"
  /\ result.explanation.on = on_base
  /\ result.explanation.tail = "."

\* ------------------------------------------- the order of the wallet

\* the wallet of the request in every order
WalletOrders ==
  LET w == location_metadata.user_cards
      n == Len(w)
  IN  {[i \in 1..n |-> w[p[i]]] :
         p \in {q \in [1..n -> 1..n] : \A i \in 1..n, j \in 1..n : q[i] = q[j] => i = j}}

\* C30: the card deterministic_best chooses, and hence recommended_card,
\* does not depend on the order of the wallet: for the same rules, category
\* and rotating set every permutation of the wallet yields the same card.
C30_WalletOrderIrrelevant ==
  /\ RowsBuilt =>
       \A w \in WalletOrders :
         deterministic_best(
           build_rows(w, rewards_json.data, canonical_category, rotating_active)).card
         = best.card
  /\ pc = "returned" /\ rows # <<>> => result.recommended_card = best.card

\* two different cards tie on the effective multiplier and the one that is
\* second in the wallet was chosen
C30_Witness ==
  /\ RowsBuilt
  /\ Len(rows) = 2
  /\ rows[1].card # rows[2].card
  /\ isclose(rows[1].effective_multiplier, rows[2].effective_multiplier)
  /\ best.card = rows[2].card

\* ---------------------------------------------------------------------------
\* PlacesClient.nearby: the retry loop around the Nearby Search request.
\* ---------------------------------------------------------------------------

\* settings.places_retries is at most this
MaxRetries == 3

\* the members of business_types and exclude_types the places below carry
business_types == {"restaurant", "food", "cafe", "store"}

exclude_types == {"locality", "political", "airport"}

Place(name, types) == [name |-> name, types |-> types]

\* business_score of _filter_business_results
business_score(place) == Cardinality(place.types \cap business_types)

\* the name test of the elif branch
reasonable_name(place) ==
  LET name == strip(place.name)
  IN /\ name # <<>>
     /\ Len(name) > 2
     /\ lower(name) \notin { <<"s","a","n"," ","f","r","a","n","c","i","s","c","o">>,
                             <<"c","a","l","i","f","o","r","n","i","a">>,
                             <<"u","s","a">> }

\* the for loop of _filter_business_results
kept(place) ==
  IF place.types \cap exclude_types # {} THEN FALSE
  ELSE IF place.types \cap business_types # {} THEN TRUE
  ELSE reasonable_name(place)

\* list.sort(key=business_score, reverse=True): stable, highest score first
RECURSIVE sort_by_score(_)
sort_by_score(places) ==
  IF places = <<>> THEN <<>>
  ELSE LET top == CHOOSE s \in { business_score(places[i]) : i \in DOMAIN places } :
                    \A i \in DOMAIN places : business_score(places[i]) <= s
           first == CHOOSE i \in DOMAIN places :
                      /\ business_score(places[i]) = top
                      /\ \A j \in 1..(i - 1) : business_score(places[j]) # top
       IN <<places[first]>>
          \o sort_by_score(SubSeq(places, 1, first - 1)
                           \o SubSeq(places, first + 1, Len(places)))

filter_business_results(results) ==
  sort_by_score(SelectSeq(results, kept))

last_attempt_on_any_failure(attempt, retries) == TRUE

\* attempt == self.retries - 1 of the three except clauses
last_attempt(attempt, retries) == attempt = retries - 1

\* what one client.get can come to: the status of the body, or the exception
Failures == {"TimeoutException", "HTTPStatusError", "REQUEST_DENIED"}

InitNearby ==
  LET cafe == Place(<<"J","o","e","s">>, {"cafe"})
      diner == Place(<<"D","i","n","e","r">>, {"restaurant", "food"})
      town == Place(<<"U","S","A">>, {"locality", "political"})
      kiosk == Place(<<"A","c","m","e">>, {"point_of_interest"})
      nameless == Place(<<"a","b"," ">>, {"point_of_interest"})
  IN /\ \E retries \in 0..MaxRetries :
        \E results \in { <<>>, <<town, cafe, kiosk, diner>>, <<nameless, town>> } :
          nearby = [retries |-> retries, results |-> results, attempt |-> 0,
                    pc |-> "loop", log |-> <<>>, value |-> <<>>]
     /\ Idle("nearby")

\* one pass of the loop body up to the return, the raise or the sleep
Get ==
  /\ nearby # <<>>
  /\ nearby.pc = "loop"
  /\ nearby.attempt < nearby.retries
  /\ \E outcome \in {"OK", "ZERO_RESULTS"} \cup Failures :
       LET logged == [nearby EXCEPT !.log = Append(@, outcome)]
       IN nearby' =
            IF outcome = "OK"
              THEN [logged EXCEPT !.pc = "returned",
                                  !.value = filter_business_results(nearby.results)]
            ELSE IF outcome = "ZERO_RESULTS"
              THEN [logged EXCEPT !.pc = "returned", !.value = <<>>]
            ELSE IF last_attempt(nearby.attempt, nearby.retries)
              THEN [logged EXCEPT !.pc = "raised"]
            ELSE [logged EXCEPT !.pc = "sleep"]
  /\ UNCHANGED <<request_vars, card_name, normalized, coroutines, thread, redis, visits, token, auth, users, registering, inflight>>

\* asyncio.sleep returns and the for statement takes the next attempt
Sleep ==
  /\ nearby # <<>>
  /\ nearby.pc = "sleep"
  /\ nearby' = [nearby EXCEPT !.pc = "loop", !.attempt = @ + 1]
  /\ UNCHANGED <<request_vars, card_name, normalized, coroutines, thread, redis, visits, token, auth, users, registering, inflight>>

\* range(self.retries) is exhausted: the return [] after the loop
Exhausted ==
  /\ nearby # <<>>
  /\ nearby.pc = "loop"
  /\ nearby.attempt >= nearby.retries
  /\ nearby' = [nearby EXCEPT !.pc = "returned", !.value = <<>>]
  /\ UNCHANGED <<request_vars, card_name, normalized, coroutines, thread, redis, visits, token, auth, users, registering, inflight>>

NextNearby == Get \/ Sleep \/ Exhausted

\* every request has the client's timeout and every sleep is finite
SpecNearby == InitNearby /\ [][NextNearby]_vars /\ WF_vars(NextNearby)

NearbySafe ==
  LET n == Len(nearby.log)
      final == nearby.log[n]
  IN /\ n <= nearby.retries
     /\ \A i \in 1..(n - 1) : nearby.log[i] \in Failures
     /\ nearby.pc = "sleep" => n < nearby.retries /\ final \in Failures
     /\ nearby.pc = "raised" => n = nearby.retries /\ final \in Failures
     /\ nearby.pc = "returned" /\ n > 0 =>
          /\ final \in {"OK", "ZERO_RESULTS"}
          /\ final = "OK" =>
               /\ \A i \in DOMAIN nearby.value :
                    /\ nearby.value[i].types \cap exclude_types = {}
                    /\ \A j \in i..Len(nearby.value) :
                         business_score(nearby.value[i]) >= business_score(nearby.value[j])
               /\ \A p \in { nearby.results[i] : i \in DOMAIN nearby.results } :
                    kept(p) <=> p \in { nearby.value[i] : i \in DOMAIN nearby.value }
               /\ Len(nearby.value) = Len(SelectSeq(nearby.results, kept))
          /\ final = "ZERO_RESULTS" => nearby.value = <<>>
     /\ n > 0 /\ final \in Failures /\ n < nearby.retries => nearby.pc \in {"sleep", "loop"}
     /\ n > 0 /\ final \in Failures /\ n = nearby.retries => nearby.pc = "raised"

\* C28: PlacesClient.nearby makes at most `retries` HTTP attempts and ends:
\* every attempt before the last one made failed (timeout, HTTP error status
\* or API error status) and was followed by another; status OK returns the
\* filtered results and ZERO_RESULTS returns [] with no further attempt; an
\* exception is raised only when attempt number `retries` fails.
C28_NearbyEndsWithinRetries ==
  /\ [](nearby # <<>> => NearbySafe)
  /\ <>(nearby # <<>> /\ nearby.pc \in {"returned", "raised"})

C28_Witness ==
  /\ nearby # <<>>
  /\ nearby.retries = 3
  /\ nearby.pc = "returned"
  /\ nearby.log = <<"TimeoutException", "REQUEST_DENIED", "OK">>
  /\ Len(nearby.value) = 3
  /\ nearby.value[1].types = {"restaurant", "food"}

\* ---------------------------------------------------------------------------
\* POST /auth/register: concurrent registrations against the user table.
\* ---------------------------------------------------------------------------

\* registration requests in flight
MaxRegistrations == 3

Emails == {"a@keel.app", "b@keel.app"}

\* select(User).where(User.email == email) ... .first(), an Optional[User]:
\* <<user>> for the first row with the email, <<>> for None
get_by_email(table, email) ==
  IF \E i \in DOMAIN table : table[i].email = email
    THEN <<table[CHOOSE i \in DOMAIN table :
                   /\ table[i].email = email
                   /\ \A j \in 1..(i - 1) : table[j].email # email]>>
    ELSE <<>>

user_exists(table, email) == get_by_email(table, email) # <<>>

unique_email_unenforced(table, email) == TRUE

\* Field(unique=True): the index refuses a second row with the email
unique_email(table, email) == \A i \in DOMAIN table : table[i].email # email

\* error_response(code, ..., http_status)
register_error(code, http_status) ==
  [status_code |-> http_status, code |-> code, access_token |-> None, user_id |-> None]

\* AuthResponse(access_token=create_access_token(sub=str(user.id)), user_id=user.id, ...)
AuthResponse(user) ==
  [status_code |-> 200, code |-> "", access_token |-> <<"sub", ToString(user.id)>>,
   user_id |-> user.id]

InitRegister ==
  /\ users = <<>>
  /\ \E emails \in [1..MaxRegistrations -> Emails] :
       registering = [r \in 1..MaxRegistrations |->
                        [email |-> emails[r], pc |-> "start",
                         response |-> register_error("", 0)]]
  /\ Idle("register")

\* if user_store.user_exists(request.email): return error_response(...)
CheckExists(r) ==
  /\ registering[r].pc = "start"
  /\ registering' =
       IF user_exists(users, registering[r].email)
         THEN [registering EXCEPT ![r].pc = "done",
                 ![r].response = register_error("EMAIL_ALREADY_EXISTS", 400)]
         ELSE [registering EXCEPT ![r].pc = "create_user"]
  /\ UNCHANGED <<users, request_vars, card_name, normalized, coroutines, thread, redis, visits, token, auth, nearby, inflight>>

\* create_user: if self.get_by_email(email): raise ValueError, caught by register
CreateUser(r) ==
  /\ registering[r].pc = "create_user"
  /\ registering' =
       IF get_by_email(users, registering[r].email) # <<>>
         THEN [registering EXCEPT ![r].pc = "done",
                 ![r].response = register_error("VALIDATION_ERROR", 400)]
         ELSE [registering EXCEPT ![r].pc = "commit"]
  /\ UNCHANGED <<users, request_vars, card_name, normalized, coroutines, thread, redis, visits, token, auth, nearby, inflight>>

\* session.add(user); session.commit(): the row is stored, or the commit
\* raises (the unique index, or the database itself) and register answers 500
Commit(r) ==
  /\ registering[r].pc = "commit"
  /\ \E database_error \in BOOLEAN :
       IF unique_email(users, registering[r].email) /\ ~database_error
         THEN LET user == [id |-> Len(users) + 1, email |-> registering[r].email]
              IN /\ users' = Append(users, user)
                 /\ registering' = [registering EXCEPT ![r].pc = "done",
                                      ![r].response = AuthResponse(user)]
         ELSE /\ users' = users
              /\ registering' = [registering EXCEPT ![r].pc = "done",
                                   ![r].response = register_error("REGISTRATION_FAILED", 500)]
  /\ UNCHANGED <<request_vars, card_name, normalized, coroutines, thread, redis, visits, token, auth, nearby, inflight>>

NextRegister ==
  \/ \E r \in DOMAIN registering : CheckExists(r)
  \/ \E r \in DOMAIN registering : CreateUser(r)
  \/ \E r \in DOMAIN registering : Commit(r)

SpecRegister == InitRegister /\ [][NextRegister]_vars

Answered(r) == registering[r].pc = "done"

\* C29: the user table never holds two rows with one email; a registration
\* that finishes while its email is already stored (found by either check, or
\* refused by the commit after losing the race) answers with an error status
\* and no token and leaves the table as it was; every token issued is for the
\* row its request stored.
C29_OneUserPerEmail ==
  /\ [](/\ \A i, j \in DOMAIN users : users[i].email = users[j].email => i = j
        /\ \A r \in DOMAIN registering :
             Answered(r) /\ registering[r].response.access_token # None =>
               /\ registering[r].response.user_id \in DOMAIN users
               /\ users[registering[r].response.user_id].email = registering[r].email
               /\ \A q \in DOMAIN registering :
                    /\ Answered(q)
                    /\ registering[q].response.access_token # None
                    /\ registering[q].response.user_id = registering[r].response.user_id
                    => q = r)
  /\ [][\A r \in DOMAIN registering :
          ~Answered(r) /\ registering'[r].pc = "done"
          /\ user_exists(users, registering[r].email) =>
            /\ users' = users
            /\ registering'[r].response.status_code >= 400
            /\ registering'[r].response.access_token = None]_vars

\* two registrations of one email passed both checks; one stored the row and
\* the other was refused by the commit
C29_Witness ==
  \E r, q \in DOMAIN registering :
    /\ r # q
    /\ registering[r].email = registering[q].email
    /\ Answered(r) /\ registering[r].response.status_code = 200
    /\ Answered(q) /\ registering[q].response.code = "REGISTRATION_FAILED"
    /\ Len(users) = 1
    /\ \A p \in DOMAIN registering : p \notin {r, q} => registering[p].pc = "start"

\* ---------------------------------------------------------------------------
\* Concurrent calls of analyze_location_and_recommend_card: one rewards.json,
\* one frame of locals per call.
\* ---------------------------------------------------------------------------

\* calls in flight at once
MaxConcurrent == 2

frame_of_first_call(r) == 1

\* rewards, user_cards, canonical_category, rotating_active, rows and best are
\* locals of the call: call r binds them in its own frame
frame_of(r) == r

NoLocals ==
  [rewards |-> [cards |-> <<>>], canonical_category |-> None,
   rotating_active |-> {}, rows |-> <<>>, best |-> Unbound]

InitConcurrent ==
  LET citi == <<"C","i","t","i"," ","C","u","s","t","o","m"," ","C","a","s","h">>
      swapped ==
        [readable |-> TRUE,
         data |-> [cards |->
           (AmexGold :> [rewards |-> (dining :> JNum(30, 0)) @@ (everything_else :> JNum(20, 0))])
             @@ (citi :> [rewards |-> (everything_else :> JNum(20, 0))])]]
      arguments ==
        { ExampleMetadata,
          Metadata(<<" ","F","u","e","l"," ">>, None, <<>>, <<citi, AmexGold>>, <<>>),
          Metadata(None, None, <<>>, <<citi, AmexGold, citi>>, <<>>),
          Metadata(None, <<"5","8","1","2">>, <<>>, <<>>, <<>>) }
  IN /\ rewards_json \in {ExampleRules, swapped,
                          [readable |-> FALSE, data |-> [cards |-> <<>>]]}
     /\ \E mds \in [1..MaxConcurrent -> arguments] :
          inflight = [r \in 1..MaxConcurrent |->
                        [location_metadata |-> mds[r], pc |-> "start", locals |-> NoLocals]]
     /\ Idle("concurrent")

\* rewards = load_rewards(); user_cards = ...; if not user_cards: raise
LoadRewards(r) ==
  /\ inflight[r].pc = "start"
  /\ inflight' =
       IF ~rewards_json.readable \/ inflight[r].location_metadata.user_cards = <<>>
         THEN [inflight EXCEPT ![r].pc = "except"]
         ELSE [inflight EXCEPT ![r].pc = "loaded",
                               ![frame_of(r)].locals.rewards = rewards_json.data]
  /\ UNCHANGED <<request_vars, card_name, normalized, coroutines, thread, redis, visits, token, auth, nearby, users, registering>>

\* canonical_category = canonicalize_category(...); rotating_active = set(...)
Canonicalize(r) ==
  /\ inflight[r].pc = "loaded"
  /\ LET md == inflight[r].location_metadata
     IN inflight' =
          [inflight EXCEPT
             ![r].pc = "canonical",
             ![frame_of(r)].locals.canonical_category =
                canonicalize_category(md.category, md.mcc, md.place_types),
             ![frame_of(r)].locals.rotating_active =
                {lc(md.user_rotating_active[i]) : i \in 1..Len(md.user_rotating_active)}]
  /\ UNCHANGED <<request_vars, card_name, normalized, coroutines, thread, redis, visits, token, auth, nearby, users, registering>>

\* rows = build_rows(user_cards, rewards, canonical_category, rotating_active)
BuildRows(r) ==
  /\ inflight[r].pc = "canonical"
  /\ LET md == inflight[r].location_metadata
         my == inflight[frame_of(r)].locals
     IN inflight' =
          IF build_rows_raises(md.user_cards, my.rewards, my.canonical_category,
                               my.rotating_active)
            THEN [inflight EXCEPT ![r].pc = "except"]
            ELSE [inflight EXCEPT
                    ![r].pc = "rows",
                    ![frame_of(r)].locals.rows =
                       build_rows(md.user_cards, my.rewards, my.canonical_category,
                                  my.rotating_active)]
  /\ UNCHANGED <<request_vars, card_name, normalized, coroutines, thread, redis, visits, token, auth, nearby, users, registering>>

\* best = deterministic_best(rows)
DeterministicBest(r) ==
  /\ inflight[r].pc = "rows"
  /\ inflight' =
       [inflight EXCEPT
          ![r].pc = "best",
          ![frame_of(r)].locals.best = deterministic_best(inflight[frame_of(r)].locals.rows)]
  /\ UNCHANGED <<request_vars, card_name, normalized, coroutines, thread, redis, visits, token, auth, nearby, users, registering>>

NextConcurrent ==
  \/ \E r \in DOMAIN inflight : LoadRewards(r)
  \/ \E r \in DOMAIN inflight : Canonicalize(r)
  \/ \E r \in DOMAIN inflight : BuildRows(r)
  \/ \E r \in DOMAIN inflight : DeterministicBest(r)

SpecConcurrent == InitConcurrent /\ [][NextConcurrent]_vars

\* what the call computes from its own argument and the file, run alone
AloneCategory(md) == canonicalize_category(md.category, md.mcc, md.place_types)

AloneRows(md) ==
  build_rows(md.user_cards, rewards_json.data, AloneCategory(md),
             {lc(md.user_rotating_active[i]) : i \in 1..Len(md.user_rotating_active)})

\* C27: a recommendation request only reads rewards.json and writes nothing
\* another request can see: whatever the interleaving, a step of one request
\* leaves the file and every other request's locals as they were, and each
\* request's canonical category, rows and best card are the ones it computes
\* from its own argument when it runs alone.
C27_RequestsDoNotInterfere ==
  /\ [](\A r \in DOMAIN inflight :
          LET md == inflight[r].location_metadata
              my == inflight[r].locals
          IN /\ inflight[r].pc \in {"canonical", "rows", "best"} =>
                  my.canonical_category = AloneCategory(md)
             /\ inflight[r].pc \in {"rows", "best"} => my.rows = AloneRows(md)
             /\ inflight[r].pc = "best" => my.best = deterministic_best(AloneRows(md)))
  /\ [][/\ rewards_json' = rewards_json
        /\ \A r, q \in DOMAIN inflight :
             inflight'[r].pc # inflight[r].pc /\ q # r => inflight'[q] = inflight[q]]_vars

\* two requests for different places, interleaved: the second has its
\* category while the first already has its best card, and they differ
C27_Witness ==
  /\ inflight # <<>>
  /\ inflight[1].pc = "best"
  /\ inflight[2].pc = "canonical"
  /\ inflight[1].locals.canonical_category = dining
  /\ inflight[2].locals.canonical_category = <<"g","a","s">>
  /\ inflight[1].locals.best.card # Unbound.card
  /\ inflight[2].locals.rows = <<>>

====
